---- MODULE Spec2Model ----
(***************************************************************************)
(* A model of golinkfinder (src/main.go): the input collection, the worker *)
(* pool, the aggregation loop and the final emission of main(), with the   *)
(* string functions they call (TrimSpace, the endpoint regular expression, *)
(* url.Parse, ResolveReference, sort.Strings) computed on sequences of     *)
(* one-character strings.                                                  *)
(***************************************************************************)
EXTENDS Integers, Sequences, FiniteSets, TLC

(***************************************************************************)
(* Bounds of the model.                                                    *)
(***************************************************************************)
\* The largest worker count given with -t.
MaxThreads == 2
\* The largest number of pieces of a body given to the extraction on its own.
MaxPieces == 6

(***************************************************************************)
(* Strings are sequences of one-character strings over this alphabet.  It  *)
(* holds both quote characters, characters of the endpoint class, a space  *)
(* and a character outside the class; its letters are not hexadecimal      *)
(* digits, so every "%" starts an invalid escape.                          *)
(***************************************************************************)
Alphabet == {" ", "\"", "%", "'", ".", "/", ":", "<", "h", "p", "t"}

\* The byte value of a character: sort.Strings compares byte by byte.
Code(c) ==
  CASE c = " "  -> 32
    [] c = "\"" -> 34
    [] c = "%"  -> 37
    [] c = "'"  -> 39
    [] c = "."  -> 46
    [] c = "/"  -> 47
    [] c = ":"  -> 58
    [] c = "<"  -> 60
    [] c = "h"  -> 104
    [] c = "p"  -> 112
    [] c = "t"  -> 116

Range(s) == {s[i] : i \in 1..Len(s)}

\* s[from..] (1-based), the empty string when from is past the end.
Drop(s, from) == SubSeq(s, from, Len(s))
\* s[..to].
Take(s, to) == SubSeq(s, 1, to)

HasPrefix(s, p) == Len(s) >= Len(p) /\ Take(s, Len(p)) = p

\* strings.Index for a one-character needle: the first position, 0 when absent.
IndexOf(s, c) ==
  IF \E i \in 1..Len(s) : s[i] = c
  THEN CHOOSE i \in 1..Len(s) : s[i] = c /\ \A j \in 1..(i - 1) : s[j] # c
  ELSE 0

\* strings.LastIndex for a one-character needle, 0 when absent.
LastIndexOf(s, c) ==
  IF \E i \in 1..Len(s) : s[i] = c
  THEN CHOOSE i \in 1..Len(s) : s[i] = c /\ \A j \in (i + 1)..Len(s) : s[j] # c
  ELSE 0

\* Byte-wise lexicographic order, as Go compares strings.
StrLess(a, b) ==
  \E i \in 1..(Len(b)) :
     /\ \A j \in 1..(i - 1) : j <= Len(a) /\ a[j] = b[j]
     /\ \/ i = Len(a) + 1
        \/ i <= Len(a) /\ Code(a[i]) < Code(b[i])

\* sort.Strings of the keys of a map: the elements of S in increasing order.
RECURSIVE SortStrings(_)
SortStrings(S) ==
  IF S = {} THEN <<>>
  ELSE LET m == CHOOSE x \in S : \A y \in S \ {x} : StrLess(x, y)
       IN <<m>> \o SortStrings(S \ {m})

(***************************************************************************)
(* strings.TrimSpace                                                       *)
(***************************************************************************)
IsSpace(c) == c = " "

RECURSIVE TrimLeft(_)
TrimLeft(s) == IF s # <<>> /\ IsSpace(Head(s)) THEN TrimLeft(Tail(s)) ELSE s

RECURSIVE TrimRight(_)
TrimRight(s) ==
  IF s # <<>> /\ IsSpace(s[Len(s)]) THEN TrimRight(Take(s, Len(s) - 1)) ELSE s

TrimSpace(s) == TrimRight(TrimLeft(s))

(***************************************************************************)
(* The extractor: endpointRegex applied by FindAllStringSubmatch.          *)
(***************************************************************************)
IsQuote(c) == c \in {"\"", "'"}

\* The characters of [a-zA-Z0-9_?%&=\/\-\#\.\(\)] that the alphabet holds.
IsPathChar(c) == c \in {"%", ".", "/", "h", "p", "t"}

\* The end of the longest run of class characters that starts at position i
\* (i - 1 when body[i] is not a class character).
RECURSIVE RunEnd(_, _)
RunEnd(body, i) ==
  IF i <= Len(body) /\ IsPathChar(body[i]) THEN RunEnd(body, i + 1) ELSE i - 1

\* A match of the pattern that starts at position i: the position of its
\* closing quote, 0 when there is none.  The class holds no quote, so only the
\* longest run of class characters can be followed by the closing quote.
MatchAt(body, i) ==
  IF /\ i + 3 <= Len(body)
     /\ IsQuote(body[i])
     /\ body[i + 1] = "/"
     /\ IsPathChar(body[i + 2])
     /\ RunEnd(body, i + 2) + 1 <= Len(body)
     /\ IsQuote(body[RunEnd(body, i + 2) + 1])
  THEN RunEnd(body, i + 2) + 1
  ELSE 0

\* FindAll that looks for the next match one character after the start of
\* the last one, not after its end.
RECURSIVE FindAllOverlap(_, _)
FindAllOverlap(body, from) ==
  IF from > Len(body) THEN <<>>
  ELSE IF MatchAt(body, from) # 0
       THEN <<SubSeq(body, from + 1, MatchAt(body, from) - 1)>>
              \o FindAllOverlap(body, from + 1)
       ELSE FindAllOverlap(body, from + 1)

\* match[2] of every successive non-overlapping match, leftmost first.
RECURSIVE FindAll(_, _)
FindAll(body, from) ==
  IF from > Len(body) THEN <<>>
  ELSE IF MatchAt(body, from) # 0
       THEN <<SubSeq(body, from + 1, MatchAt(body, from) - 1)>>
              \o FindAll(body, MatchAt(body, from) + 1)
       ELSE FindAll(body, from + 1)

Extract(body) == FindAll(body, 1)

(***************************************************************************)
(* net/url as main.go calls it: url.Parse, ResolveReference and String,    *)
(* for strings over the alphabet (no query, fragment or userinfo).         *)
(***************************************************************************)
IsLetter(c) == c \in {"h", "p", "t"}

NoURL == [ok |-> FALSE, scheme |-> <<>>, opaque |-> <<>>, host |-> <<>>,
          path |-> <<>>, omitHost |-> FALSE]

\* getScheme: the position at which the scan of the scheme stops, 0 when the
\* loop runs to the end of the string.
SchemeStop(raw) ==
  IF \E i \in 1..Len(raw) : ~IsLetter(raw[i]) /\ (raw[i] # "." \/ i = 1)
  THEN CHOOSE i \in 1..Len(raw) :
         /\ ~IsLetter(raw[i]) /\ (raw[i] # "." \/ i = 1)
         /\ \A j \in 1..(i - 1) : IsLetter(raw[j]) \/ (raw[j] = "." /\ j > 1)
  ELSE 0

HasScheme(raw) == SchemeStop(raw) > 1 /\ raw[SchemeStop(raw)] = ":"
\* "missing protocol scheme": the string starts with a colon.
SchemeError(raw) == SchemeStop(raw) = 1 /\ raw[1] = ":"

\* unescape rejects every "%" here: no character of the alphabet is a
\* hexadecimal digit.
ValidEscapes(s) == \A i \in 1..Len(s) : s[i] # "%"

\* parseHost: a colon must be followed by a (here: empty) port, and the host
\* holds no space and no invalid escape.
ValidHost(h) ==
  /\ ValidEscapes(h)
  /\ \A i \in 1..Len(h) : h[i] # " "
  /\ (LastIndexOf(h, ":") # 0 => LastIndexOf(h, ":") = Len(h))

URLParse(raw) ==
  IF SchemeError(raw) THEN NoURL
  ELSE
  LET scheme == IF HasScheme(raw) THEN Take(raw, SchemeStop(raw) - 1) ELSE <<>>
      rest   == IF HasScheme(raw) THEN Drop(raw, SchemeStop(raw) + 1) ELSE raw
      slash  == <<"/">>
      netloc == /\ (scheme # <<>> \/ ~HasPrefix(rest, <<"/", "/", "/">>))
                /\ HasPrefix(rest, <<"/", "/">>)
      auth   == Drop(rest, 3)
      cut    == IndexOf(auth, "/")
      host   == IF cut = 0 THEN auth ELSE Take(auth, cut - 1)
      path   == IF netloc
                THEN (IF cut = 0 THEN <<>> ELSE Drop(auth, cut))
                ELSE rest
      seg1   == IF IndexOf(rest, "/") = 0 THEN rest
                ELSE Take(rest, IndexOf(rest, "/") - 1)
  IN IF ~HasPrefix(rest, slash) /\ scheme # <<>>
     THEN [ok |-> TRUE, scheme |-> scheme, opaque |-> rest, host |-> <<>>,
           path |-> <<>>, omitHost |-> FALSE]
     ELSE IF ~HasPrefix(rest, slash) /\ IndexOf(seg1, ":") # 0 THEN NoURL
     ELSE IF netloc /\ ~ValidHost(host) THEN NoURL
     ELSE IF ~ValidEscapes(path) THEN NoURL
     ELSE [ok |-> TRUE, scheme |-> scheme, opaque |-> <<>>,
           host |-> IF netloc THEN host ELSE <<>>,
           path |-> path,
           omitHost |-> ~netloc /\ scheme # <<>> /\ HasPrefix(rest, slash)]

\* strings.Cut(s, "/") repeated: the elements between the slashes.
RECURSIVE SplitSlash(_)
SplitSlash(s) ==
  IF IndexOf(s, "/") = 0 THEN <<s>>
  ELSE <<Take(s, IndexOf(s, "/") - 1)>> \o SplitSlash(Drop(s, IndexOf(s, "/") + 1))

\* The loop of resolvePath over the elements k.. of elems: dst is the builder,
\* first whether the next element is written without a separator.
RECURSIVE ResolveElems(_, _, _, _)
ResolveElems(elems, k, dst, first) ==
  IF k > Len(elems) THEN dst
  ELSE IF elems[k] = <<".">> THEN ResolveElems(elems, k + 1, dst, FALSE)
  ELSE IF elems[k] = <<".", ".">>
       THEN LET str   == Drop(dst, 2)
                index == LastIndexOf(str, "/")
            IN IF index = 0
               THEN ResolveElems(elems, k + 1, <<"/">>, TRUE)
               ELSE ResolveElems(elems, k + 1, <<"/">> \o Take(str, index - 1), first)
       ELSE ResolveElems(elems, k + 1,
                         dst \o (IF first THEN <<>> ELSE <<"/">>) \o elems[k], FALSE)

\* resolvePath(base, ref): merge, then remove the dot segments.
ResolvePath(base, ref) ==
  LET full  == IF ref = <<>> THEN base
               ELSE IF ref[1] # "/"
                    THEN Take(base, LastIndexOf(base, "/")) \o ref
                    ELSE ref
      elems == SplitSlash(full)
      last  == elems[Len(elems)]
      dst   == ResolveElems(elems, 1, <<"/">>, TRUE)
      r     == IF last = <<".">> \/ last = <<".", ".">> THEN dst \o <<"/">> ELSE dst
  IN IF full = <<>> THEN <<>>
     ELSE IF Len(r) > 1 /\ r[2] = "/" THEN Drop(r, 2) ELSE r

\* (*URL).ResolveReference
ResolveReference(u, ref) ==
  LET scheme == IF ref.scheme = <<>> THEN u.scheme ELSE ref.scheme
  IN IF ref.scheme # <<>> \/ ref.host # <<>>
     THEN [ref EXCEPT !.scheme = scheme, !.path = ResolvePath(ref.path, <<>>)]
     ELSE IF ref.opaque # <<>>
     THEN [ref EXCEPT !.scheme = scheme, !.host = <<>>, !.path = <<>>]
     ELSE IF ref.path = <<>> /\ u.opaque # <<>>
     THEN [ref EXCEPT !.scheme = scheme, !.opaque = u.opaque, !.host = <<>>,
                      !.path = <<>>]
     ELSE [ref EXCEPT !.scheme = scheme, !.host = u.host,
                      !.path = ResolvePath(u.path, ref.path)]

\* (*URL).String
URLString(u) ==
  LET head == IF u.scheme # <<>> THEN u.scheme \o <<":">> ELSE <<>>
      auth == IF u.scheme # <<>> \/ u.host # <<>>
              THEN IF u.omitHost /\ u.host = <<>> THEN <<>>
                   ELSE (IF u.host # <<>> \/ u.path # <<>> THEN <<"/", "/">> ELSE <<>>)
                          \o u.host
              ELSE <<>>
      sep  == IF u.path # <<>> /\ u.path[1] # "/" /\ u.host # <<>>
              THEN <<"/">> ELSE <<>>
      seg1 == IF IndexOf(u.path, "/") = 0 THEN u.path
              ELSE Take(u.path, IndexOf(u.path, "/") - 1)
      dot  == IF head \o auth \o sep = <<>> /\ IndexOf(seg1, ":") # 0
              THEN <<".", "/">> ELSE <<>>
  IN IF u.opaque # <<>> THEN head \o u.opaque
     ELSE head \o auth \o sep \o dot \o u.path

(***************************************************************************)
(* The inputs the model draws from.                                        *)
(***************************************************************************)
\* "http://h/p"
U1 == <<"h", "t", "t", "p", ":", "/", "/", "h", "/", "p">>
\* "http://t"
U2 == <<"h", "t", "t", "p", ":", "/", "/", "t">>
\* "%": url.Parse rejects it, so http.NewRequest fails.
UBad == <<"%">>
Urls == {U1, U2, UBad}

\* A line with spaces around a URL.
Padded(u) == <<" ">> \o u \o <<" ", " ">>

\* The contents a -l file may have, line by line: empty, blank lines only,
\* one URL, padded and blank lines, a URL twice, a URL that does not parse
\* among others.
InputFiles ==
  { <<>>,
    << <<>>, <<" ">> >>,
    << U1 >>,
    << Padded(U2), <<>>, U1 >>,
    << U1, U1 >>,
    << UBad, Padded(U2) >>,
    << UBad, U2, UBad >> }

\* What may be piped into stdin.
StdinInputs ==
  { <<>>,
    << <<" ", " ">> >>,
    << <<>>, Padded(U2) >> }

\* Response bodies a server may send with status 200.
\*   <                 no endpoint
BodyNone == <<"<">>
\*   "/t"'/t'          the same endpoint twice
BodyA == <<"\"", "/", "t", "\"", "'", "/", "t", "'">>
\*   "/p/../t"'/%'"/t" a path with dot segments, one url.Parse rejects, and
\*                     the endpoint of BodyA
BodyB == <<"\"", "/", "p", "/", ".", ".", "/", "t", "\"", "'", "/", "%", "'",
           "\"", "/", "t", "\"">>
Bodies == {BodyNone, BodyA, BodyB}

(***************************************************************************)
(* The network: the responses a GET of targetURL may meet.  A response is  *)
(* a transport failure, or a status with a body whose read may fail.       *)
(***************************************************************************)
Response(transport, status, readable, body) ==
  [transport |-> transport, status |-> status, readable |-> readable, body |-> body]

Responses(targetURL) ==
  IF targetURL = U1
  THEN {Response(FALSE, 0, FALSE, <<>>),
        Response(TRUE, 200, TRUE, BodyA),
        Response(TRUE, 200, TRUE, BodyNone)}
  ELSE {Response(TRUE, 404, TRUE, BodyA),
        Response(TRUE, 200, FALSE, <<>>),
        Response(TRUE, 200, TRUE, BodyB)}

(***************************************************************************)
(* fetchAndFindLinks (lines 53-83): what the call returns when the network *)
(* answers with resp.  The error "" is Go's nil.                           *)
(***************************************************************************)
NoError == ""

FetchResult(endpoints, err) == [endpoints |-> endpoints, err |-> err]

FetchAndFindLinks(targetURL, resp) ==
  IF ~URLParse(targetURL).ok
  THEN FetchResult(<<>>, "could not create request")
  ELSE IF \/ ~resp.transport
          \/ URLParse(targetURL).scheme # <<"h", "t", "t", "p">>
          \/ URLParse(targetURL).host = <<>>
  THEN FetchResult(<<>>, "http request failed")
  ELSE IF resp.status # 200
  THEN FetchResult(<<>>, "bad status code")
  ELSE IF ~resp.readable
  THEN FetchResult(<<>>, "could not read response body")
  ELSE FetchResult(Extract(resp.body), NoError)

\* The results one call for targetURL may return.
FetchOutcomes(targetURL) ==
  {FetchAndFindLinks(targetURL, resp) : resp \in Responses(targetURL)}

(***************************************************************************)
(* The state of a run.                                                     *)
(***************************************************************************)
VARIABLES
  targetURL,    \* -u
  urlList,      \* -l
  outputFile,   \* -o
  threads,      \* -t
  resolve,      \* -r
  quiet,        \* -q
  pc,           \* where main() is
  urlsToScan,
  made,         \* whether the channels, the client and the set exist
  jobs,         \* the jobs channel: the queued entries
  jobsClosed,
  results,      \* the results channel: the results not yet received
  resultsClosed,
  wg,           \* the WaitGroup's counter
  wk,           \* the worker goroutines
  i,            \* the counter of main's current loop
  res,          \* the result main is handling
  k,            \* the position of the current link in res.endpoints
  finalLink,    \* the string main is about to add
  finalEndpointsLock,  \* the holder of the mutex, "" when it is free
  allFoundEndpoints,
  sortedEndpoints,
  stdout,
  stderr,
  file,         \* the lines written to the output file
  exitCode,     \* -1 while the process runs
  fatal,        \* which fatal error ended the run
  panicked,     \* a runtime panic (a send on, or a close of, a closed channel)
  lines,        \* history: the lines the scanner read from the file or stdin
  finalized,    \* history: how many times the sorted list was produced
  fetched,      \* history: the fetch attempts made for each list entry
  sent,         \* history: the results sent on the results channel
  consumed,     \* history: the results main received
  page,         \* a response body given to the extraction on its own
  returned      \* the endpoints that extraction returned: <<>> before it ran

flagVars == <<targetURL, urlList, outputFile, threads, resolve, quiet>>
chanVars == <<jobs, jobsClosed, results, resultsClosed>>
poolVars == <<wg, wk>>
loopVars == <<i, res, k, finalLink>>
setVars  == <<allFoundEndpoints, finalEndpointsLock>>
outVars  == <<stdout, stderr, file>>
endVars  == <<sortedEndpoints, exitCode, fatal, panicked>>
histVars == <<lines, finalized, fetched, sent, consumed>>
unitVars == <<page, returned>>
vars == <<flagVars, pc, urlsToScan, made, chanVars, poolVars, loopVars, setVars,
          outVars, endVars, histVars, unitVars>>

Workers == 1..MaxThreads

\* A goroutine that holds nothing.
Blank(st) == [st |-> st, idx |-> 0, url |-> <<>>, endpoints |-> <<>>, err |-> NoError]
\* The zero linkFinderResult.
NoResult == [idx |-> 0, sourceURL |-> <<>>, endpoints |-> <<>>, err |-> NoError]

Running == exitCode = -1 /\ ~panicked

Init ==
  /\ targetURL \in {<<>>, U1}
  /\ urlList \in {"", "urls.txt"}
  /\ outputFile \in {"", "out.txt"}
  /\ threads \in -1..MaxThreads
  /\ resolve \in BOOLEAN
  /\ quiet \in BOOLEAN
  /\ pc = "collect"
  /\ urlsToScan = <<>>
  /\ made = FALSE
  /\ jobs = <<>> /\ jobsClosed = FALSE
  /\ results = <<>> /\ resultsClosed = FALSE
  /\ wg = 0
  /\ wk = [w \in Workers |-> Blank("unborn")]
  /\ i = 0
  /\ res = NoResult
  /\ k = 0
  /\ finalLink = <<>>
  /\ finalEndpointsLock = ""
  /\ allFoundEndpoints = {}
  /\ sortedEndpoints = <<>>
  /\ stdout = <<>> /\ stderr = <<>> /\ file = <<>>
  /\ exitCode = -1
  /\ fatal = "none"
  /\ panicked = FALSE
  /\ lines = <<>> /\ finalized = 0
  /\ fetched = <<>> /\ sent = <<>> /\ consumed = <<>>
  /\ page = <<>> /\ returned = <<>>

(***************************************************************************)
(* main(): collecting the input (lines 115-148).                           *)
(***************************************************************************)
\* The scanner loop: the trimmed lines that are not empty, in order.
RECURSIVE ScanLines(_)
ScanLines(text) ==
  IF text = <<>> THEN <<>>
  ELSE (IF TrimSpace(Head(text)) # <<>> THEN <<TrimSpace(Head(text))>> ELSE <<>>)
         \o ScanLines(Tail(text))

\* os.Exit(1) after a message on stderr.
Die(kind) ==
  /\ stderr' = Append(stderr, <<"fatal", kind>>)
  /\ exitCode' = 1
  /\ fatal' = kind
  /\ pc' = "exit"
  /\ UNCHANGED <<sortedEndpoints, panicked>>

\* main goes on to the step at.
Goto(at) ==
  /\ pc' = at
  /\ UNCHANGED <<stderr, endVars>>

\* Lines 115-141: -u, else the -l file, else piped stdin.
ReadInput ==
  /\ Running /\ pc = "collect"
  /\ IF targetURL # <<>>
     THEN urlsToScan' = <<targetURL>> /\ Goto("check") /\ UNCHANGED lines
     ELSE IF urlList # ""
     THEN \E opens \in BOOLEAN :
            IF ~opens
            THEN Die("InputFileMissing") /\ UNCHANGED <<urlsToScan, lines>>
            ELSE \E text \in InputFiles :
                   lines' = text /\ urlsToScan' = ScanLines(text) /\ Goto("check")
     ELSE \E piped \in BOOLEAN :
            \E text \in IF piped THEN StdinInputs ELSE {<<>>} :
              lines' = text /\ urlsToScan' = ScanLines(text) /\ Goto("check")
  /\ UNCHANGED <<unitVars, flagVars, made, chanVars, poolVars, loopVars, setVars, stdout,
                 file, finalized, fetched, sent, consumed>>

\* CheckInput without the test of the length: an empty list goes on.
CheckInputSkip ==
  /\ Running /\ pc = "check"
  /\ Goto("setup")
  /\ UNCHANGED <<unitVars, flagVars, urlsToScan, made, chanVars, poolVars, loopVars,
                 setVars, stdout, file, histVars>>

\* Lines 143-148: no URL to scan is fatal.
CheckInput ==
  /\ Running /\ pc = "check"
  /\ IF Len(urlsToScan) = 0
     THEN Die("InputUnavailable")
     ELSE Goto("setup")
  /\ UNCHANGED <<unitVars, flagVars, urlsToScan, made, chanVars, poolVars, loopVars,
                 setVars, stdout, file, histVars>>

\* Lines 150-164: the pattern, the set and its lock, the two channels, each of
\* capacity len(urlsToScan), the client and the WaitGroup.
Setup ==
  /\ Running /\ pc = "setup"
  /\ made' = TRUE
  /\ allFoundEndpoints' = {}
  /\ finalEndpointsLock' = ""
  /\ jobs' = <<>> /\ jobsClosed' = FALSE
  /\ results' = <<>> /\ resultsClosed' = FALSE
  /\ wg' = 0
  /\ i' = 0
  /\ fetched' = [n \in 1..Len(urlsToScan) |-> <<>>]
  /\ pc' = "spawn"
  /\ UNCHANGED <<unitVars, flagVars, urlsToScan, wk, res, k, finalLink, outVars, endVars,
                 lines, finalized, sent, consumed>>

\* Channels made one slot short of the list.
CapacityShort == Len(urlsToScan) - 1

\* Lines 154-155: the capacity given to make() for jobs and for results.
Capacity == Len(urlsToScan)

(***************************************************************************)
(* main(): the pool and the queue (lines 165-177).                         *)
(***************************************************************************)
\* Spawn without wg.Add(1): the WaitGroup does not count the worker.
SpawnNoAdd ==
  /\ Running /\ pc = "spawn" /\ i < threads
  /\ wk' = [wk EXCEPT ![i + 1] = Blank("idle")]
  /\ i' = i + 1
  /\ UNCHANGED <<unitVars, flagVars, pc, urlsToScan, made, chanVars, wg, res, k, finalLink,
                 setVars, outVars, endVars, histVars>>

\* Spawn that starts one worker whatever -t says.
SpawnOneAtLeast ==
  /\ Running /\ pc = "spawn" /\ (i < threads \/ i = 0)
  /\ wg' = wg + 1
  /\ wk' = [wk EXCEPT ![i + 1] = Blank("idle")]
  /\ i' = i + 1
  /\ UNCHANGED <<unitVars, flagVars, pc, urlsToScan, made, chanVars, res, k, finalLink,
                 setVars, outVars, endVars, histVars>>

\* Lines 165-168, one iteration: wg.Add(1); go worker(...).
Spawn ==
  /\ Running /\ pc = "spawn" /\ i < threads
  /\ wg' = wg + 1
  /\ wk' = [wk EXCEPT ![i + 1] = Blank("idle")]
  /\ i' = i + 1
  /\ UNCHANGED <<unitVars, flagVars, pc, urlsToScan, made, chanVars, res, k, finalLink,
                 setVars, outVars, endVars, histVars>>

\* Line 165, the loop's exit.
SpawnDone ==
  /\ Running /\ pc = "spawn" /\ ~(i < threads)
  /\ pc' = "enqueue"
  /\ i' = 0
  /\ UNCHANGED <<unitVars, flagVars, urlsToScan, made, chanVars, poolVars, res, k,
                 finalLink, setVars, outVars, endVars, histVars>>

\* Lines 170-172, one iteration: jobs <- url blocks while the channel is full.
\* idx, the entry's position in the list, is history carried with the URL.
Enqueue ==
  /\ Running /\ pc = "enqueue" /\ i < Len(urlsToScan)
  /\ Len(jobs) < Capacity
  /\ jobs' = Append(jobs, [idx |-> i + 1, url |-> urlsToScan[i + 1]])
  /\ i' = i + 1
  /\ UNCHANGED <<unitVars, flagVars, pc, urlsToScan, made, jobsClosed, results,
                 resultsClosed, poolVars, res, k, finalLink, setVars, outVars,
                 endVars, histVars>>

\* DrainPc with the loop's bound off by one: the last result is never received.
DrainPcShort(n) == IF n + 1 < Len(urlsToScan) THEN "drain" ELSE "wait"

\* Where main goes with n results handled: the next receive, or wg.Wait.
DrainPc(n) == IF n < Len(urlsToScan) THEN "drain" ELSE "wait"

\* CloseJobs without close(jobs): the workers' range never ends.
CloseJobsForgot ==
  /\ Running /\ pc = "enqueue" /\ ~(i < Len(urlsToScan))
  /\ stdout' = IF quiet THEN stdout ELSE Append(stdout, <<"banner", <<>>>>)
  /\ i' = 0
  /\ pc' = DrainPc(0)
  /\ UNCHANGED <<unitVars, flagVars, urlsToScan, made, chanVars, poolVars, res, k,
                 finalLink, setVars, stderr, file, endVars, histVars>>

\* Lines 173-177: close(jobs), then the banner unless quiet.
CloseJobs ==
  /\ Running /\ pc = "enqueue" /\ ~(i < Len(urlsToScan))
  /\ jobsClosed' = TRUE
  /\ stdout' = IF quiet THEN stdout ELSE Append(stdout, <<"banner", <<>>>>)
  /\ i' = 0
  /\ pc' = DrainPc(0)
  /\ UNCHANGED <<unitVars, flagVars, urlsToScan, made, jobs, results, resultsClosed,
                 poolVars, res, k, finalLink, setVars, stderr, file, endVars,
                 histVars>>

\* WorkerTake that reads the head of the queue and leaves it there.
WorkerPeek(w) ==
  /\ Running /\ wk[w].st = "idle"
  /\ jobs # <<>>
  /\ wk' = [wk EXCEPT ![w] = [Blank("fetch") EXCEPT !.idx = Head(jobs).idx,
                                                   !.url = Head(jobs).url]]
  /\ jobs' = jobs
  /\ UNCHANGED <<unitVars, flagVars, pc, urlsToScan, made, jobsClosed, results,
                 resultsClosed, wg, loopVars, setVars, outVars, endVars,
                 histVars>>

(***************************************************************************)
(* worker() (lines 85-91).                                                 *)
(***************************************************************************)
\* Line 87: for url := range jobs receives the next entry.
WorkerTake(w) ==
  /\ Running /\ wk[w].st = "idle"
  /\ jobs # <<>>
  /\ wk' = [wk EXCEPT ![w] = [Blank("fetch") EXCEPT !.idx = Head(jobs).idx,
                                                   !.url = Head(jobs).url]]
  /\ jobs' = Tail(jobs)
  /\ UNCHANGED <<unitVars, flagVars, pc, urlsToScan, made, jobsClosed, results,
                 resultsClosed, wg, loopVars, setVars, outVars, endVars,
                 histVars>>

\* WorkerFetch that goes back to the range when the fetch failed, without a
\* result for the URL.
WorkerFetchDrop(w) ==
  /\ Running /\ wk[w].st = "fetch"
  /\ \E out \in FetchOutcomes(wk[w].url) :
       /\ wk' = [wk EXCEPT ![w] =
                   IF out.err # NoError THEN Blank("idle")
                   ELSE [@ EXCEPT !.st = "send",
                                  !.endpoints = out.endpoints,
                                  !.err = out.err]]
       /\ fetched' = [fetched EXCEPT ![wk[w].idx] = Append(@, out)]
  /\ UNCHANGED <<unitVars, flagVars, pc, urlsToScan, made, chanVars, wg, loopVars,
                 setVars, outVars, endVars, lines, finalized, sent, consumed>>

\* Line 88: fetchAndFindLinks returns.
WorkerFetch(w) ==
  /\ Running /\ wk[w].st = "fetch"
  /\ \E out \in FetchOutcomes(wk[w].url) :
       /\ wk' = [wk EXCEPT ![w] = [@ EXCEPT !.st = "send",
                                            !.endpoints = out.endpoints,
                                            !.err = out.err]]
       /\ fetched' = [fetched EXCEPT ![wk[w].idx] = Append(@, out)]
  /\ UNCHANGED <<unitVars, flagVars, pc, urlsToScan, made, chanVars, wg, loopVars,
                 setVars, outVars, endVars, lines, finalized, sent, consumed>>

\* The linkFinderResult built at line 89 by the goroutine in state g.
ResultOf(g) ==
  [idx |-> g.idx, sourceURL |-> g.url, endpoints |-> g.endpoints, err |-> g.err]

\* Line 89: results <- ... blocks while the channel is full and panics when
\* it is closed.
WorkerSend(w) ==
  /\ Running /\ wk[w].st = "send"
  /\ resultsClosed \/ Len(results) < Capacity
  /\ IF resultsClosed
     THEN panicked' = TRUE /\ UNCHANGED <<results, wk, sent>>
     ELSE /\ results' = Append(results, ResultOf(wk[w]))
          /\ sent' = Append(sent, ResultOf(wk[w]))
          /\ wk' = [wk EXCEPT ![w] = Blank("idle")]
          /\ UNCHANGED panicked
  /\ UNCHANGED <<unitVars, flagVars, pc, urlsToScan, made, jobs, jobsClosed,
                 resultsClosed, wg, loopVars, setVars, outVars,
                 sortedEndpoints, exitCode, fatal, lines, finalized, fetched,
                 consumed>>

\* Lines 86-87, 91: the range ends when jobs is closed and empty; the
\* deferred wg.Done runs, and panics on a negative counter.
WorkerExit(w) ==
  /\ Running /\ wk[w].st = "idle"
  /\ jobs = <<>> /\ jobsClosed
  /\ wk' = [wk EXCEPT ![w] = Blank("done")]
  /\ wg' = wg - 1
  /\ panicked' = (wg - 1 < 0)
  /\ UNCHANGED <<unitVars, flagVars, pc, urlsToScan, made, chanVars, loopVars, setVars,
                 outVars, sortedEndpoints, exitCode, fatal, histVars>>

(***************************************************************************)
(* main(): the aggregation loop (lines 179-213).                           *)
(***************************************************************************)
\* FinalLink that ignores the error of url.Parse(link).
FinalLinkNoFallback(sourceURL, link) ==
  IF resolve /\ URLParse(sourceURL).ok
  THEN URLString(ResolveReference(URLParse(sourceURL), URLParse(link)))
  ELSE link

\* Lines 193-201: the string added for link, found in the body of sourceURL.
FinalLink(sourceURL, link) ==
  IF resolve /\ URLParse(sourceURL).ok /\ URLParse(link).ok
  THEN URLString(ResolveReference(URLParse(sourceURL), URLParse(link)))
  ELSE link

\* Receive that treats a result carrying an error as fatal.
ReceiveAbort ==
  /\ Running /\ pc = "drain"
  /\ results # <<>> \/ resultsClosed
  /\ LET r == IF results # <<>> THEN Head(results) ELSE NoResult
     IN /\ results' = (IF results # <<>> THEN Tail(results) ELSE results)
        /\ consumed' = Append(consumed, r)
        /\ res' = r
        /\ IF r.err # NoError
           THEN Die("ScanError") /\ UNCHANGED <<i, k, stdout>>
           ELSE IF Len(r.endpoints) > 0
           THEN /\ stdout' = IF quiet THEN stdout
                             ELSE Append(stdout, <<"header", r.sourceURL>>)
                /\ k' = 1 /\ Goto("links")
                /\ UNCHANGED i
           ELSE /\ i' = i + 1 /\ Goto(DrainPc(i + 1)) /\ k' = 0
                /\ UNCHANGED stdout
  /\ UNCHANGED <<unitVars, flagVars, urlsToScan, made, jobs, jobsClosed, resultsClosed,
                 poolVars, finalLink, setVars, file, lines, finalized,
                 fetched, sent>>

\* Lines 179-193: res := <-results, then the error report, or the source
\* header when there are links.  A receive on a closed and empty channel
\* yields the zero value.
Receive ==
  /\ Running /\ pc = "drain"
  /\ results # <<>> \/ resultsClosed
  /\ LET r == IF results # <<>> THEN Head(results) ELSE NoResult
     IN /\ results' = (IF results # <<>> THEN Tail(results) ELSE results)
        /\ consumed' = Append(consumed, r)
        /\ res' = r
        /\ IF r.err # NoError
           THEN /\ stderr' = IF quiet THEN stderr
                             ELSE Append(stderr, <<"error", r.sourceURL, r.err>>)
                /\ i' = i + 1 /\ pc' = DrainPc(i + 1) /\ k' = 0
                /\ UNCHANGED stdout
           ELSE IF Len(r.endpoints) > 0
           THEN /\ stdout' = IF quiet THEN stdout
                             ELSE Append(stdout, <<"header", r.sourceURL>>)
                /\ k' = 1 /\ pc' = "links"
                /\ UNCHANGED <<i, stderr>>
           ELSE /\ i' = i + 1 /\ pc' = DrainPc(i + 1) /\ k' = 0
                /\ UNCHANGED <<stdout, stderr>>
  /\ UNCHANGED <<unitVars, flagVars, urlsToScan, made, jobs, jobsClosed, resultsClosed,
                 poolVars, finalLink, setVars, file, endVars, lines, finalized,
                 fetched, sent>>

\* LockLink that takes the base URL from the input list at the loop's
\* counter, as if the results arrived in the order of the list.
LockLinkByIndex ==
  /\ Running /\ pc = "links"
  /\ finalEndpointsLock = ""
  /\ finalLink' = FinalLink(urlsToScan[i + 1], res.endpoints[k])
  /\ finalEndpointsLock' = "main"
  /\ pc' = "locked"
  /\ UNCHANGED <<unitVars, flagVars, urlsToScan, made, chanVars, poolVars, i, res, k,
                 allFoundEndpoints, outVars, endVars, histVars>>

\* LockLink without the call of Lock().
LockLinkNoLock ==
  /\ Running /\ pc = "links"
  /\ finalLink' = FinalLink(res.sourceURL, res.endpoints[k])
  /\ pc' = "locked"
  /\ UNCHANGED <<unitVars, flagVars, urlsToScan, made, chanVars, poolVars, i, res, k,
                 setVars, outVars, endVars, histVars>>

\* Lines 194-203, one iteration: the final string, then
\* finalEndpointsLock.Lock(), which waits while the mutex is held.
LockLink ==
  /\ Running /\ pc = "links"
  /\ finalEndpointsLock = ""
  /\ finalLink' = FinalLink(res.sourceURL, res.endpoints[k])
  /\ finalEndpointsLock' = "main"
  /\ pc' = "locked"
  /\ UNCHANGED <<unitVars, flagVars, urlsToScan, made, chanVars, poolVars, i, res, k,
                 allFoundEndpoints, outVars, endVars, histVars>>

\* AddLink without the membership test.
AddLinkNoCheck ==
  /\ Running /\ pc = "locked"
  /\ allFoundEndpoints' = allFoundEndpoints \cup {finalLink}
  /\ stdout' = IF quiet THEN stdout ELSE Append(stdout, <<"new", finalLink>>)
  /\ finalEndpointsLock' = ""
  /\ finalLink' = <<>>
  /\ IF k < Len(res.endpoints)
     THEN k' = k + 1 /\ pc' = "links" /\ UNCHANGED i
     ELSE k' = 0 /\ i' = i + 1 /\ pc' = DrainPc(i + 1)
  /\ UNCHANGED <<unitVars, flagVars, urlsToScan, made, chanVars, poolVars, res, stderr,
                 file, endVars, histVars>>

\* Lines 204-211: the membership test, the insertion and the incremental
\* line, then Unlock() and the next link or the next result.
AddLink ==
  /\ Running /\ pc = "locked"
  /\ IF finalLink \notin allFoundEndpoints
     THEN /\ allFoundEndpoints' = allFoundEndpoints \cup {finalLink}
          /\ stdout' = IF quiet THEN stdout
                       ELSE Append(stdout, <<"new", finalLink>>)
     ELSE UNCHANGED <<allFoundEndpoints, stdout>>
  /\ finalEndpointsLock' = ""
  /\ finalLink' = <<>>
  /\ IF k < Len(res.endpoints)
     THEN k' = k + 1 /\ pc' = "links" /\ UNCHANGED i
     ELSE k' = 0 /\ i' = i + 1 /\ pc' = DrainPc(i + 1)
  /\ UNCHANGED <<unitVars, flagVars, urlsToScan, made, chanVars, poolVars, res, stderr,
                 file, endVars, histVars>>

(***************************************************************************)
(* main(): joining the pool and emitting (lines 215-251).                  *)
(***************************************************************************)
\* Wait without the wait: main goes on whatever the counter is.
WaitNoJoin ==
  /\ Running /\ pc = "wait"
  /\ pc' = "close"
  /\ UNCHANGED <<unitVars, flagVars, urlsToScan, made, chanVars, poolVars, loopVars,
                 setVars, outVars, endVars, histVars>>

\* Line 215: wg.Wait returns when the counter is zero.
Wait ==
  /\ Running /\ pc = "wait"
  /\ wg = 0
  /\ pc' = "close"
  /\ UNCHANGED <<unitVars, flagVars, urlsToScan, made, chanVars, poolVars, loopVars,
                 setVars, outVars, endVars, histVars>>

\* Line 216: close(results).
CloseResults ==
  /\ Running /\ pc = "close"
  /\ resultsClosed' = TRUE
  /\ pc' = "sort"
  /\ UNCHANGED <<unitVars, flagVars, urlsToScan, made, jobs, jobsClosed, results,
                 poolVars, loopVars, setVars, outVars, endVars, histVars>>

\* Sort that deletes each key from the map as it collects it.
SortDrain ==
  /\ Running /\ pc = "sort"
  /\ sortedEndpoints' = SortStrings(allFoundEndpoints)
  /\ allFoundEndpoints' = {}
  /\ finalized' = finalized + 1
  /\ pc' = "print"
  /\ UNCHANGED <<unitVars, flagVars, urlsToScan, made, chanVars, poolVars, loopVars,
                 finalEndpointsLock, outVars, exitCode, fatal, panicked, lines,
                 fetched, sent, consumed>>

\* Lines 218-222: the keys of the map, sorted.
Sort ==
  /\ Running /\ pc = "sort"
  /\ sortedEndpoints' = SortStrings(allFoundEndpoints)
  /\ finalized' = finalized + 1
  /\ pc' = "print"
  /\ UNCHANGED <<unitVars, flagVars, urlsToScan, made, chanVars, poolVars, loopVars,
                 setVars, outVars, exitCode, fatal, panicked, lines, fetched,
                 sent, consumed>>

\* One line of output per element of a sequence.
LinesOf(kind, seq) == [n \in 1..Len(seq) |-> <<kind, seq[n]>>]

\* Lines 224-228: in quiet mode, the sorted list on stdout.
PrintQuiet ==
  /\ Running /\ pc = "print"
  /\ stdout' = IF quiet THEN stdout \o LinesOf("final", sortedEndpoints) ELSE stdout
  /\ pc' = "output"
  /\ UNCHANGED <<unitVars, flagVars, urlsToScan, made, chanVars, poolVars, loopVars,
                 setVars, stderr, file, endVars, histVars>>

\* Output that writes the list to the file only when -q is not set.
OutputUnlessQuiet ==
  /\ Running /\ pc = "output"
  /\ IF outputFile = ""
     THEN Goto("summary") /\ UNCHANGED <<stdout, file>>
     ELSE /\ stdout' = IF quiet THEN stdout ELSE Append(stdout, <<"saving", <<>>>>)
          /\ \E created \in BOOLEAN :
               IF created
               THEN /\ file' = IF quiet THEN <<>> ELSE sortedEndpoints
                    /\ Goto("summary")
               ELSE Die("OutputFileError") /\ UNCHANGED file
  /\ UNCHANGED <<unitVars, flagVars, urlsToScan, made, chanVars, poolVars,
                 loopVars, setVars, histVars>>

\* Lines 230-246: with -o, create the file (fatal when that fails) and write
\* the sorted list.
Output ==
  /\ Running /\ pc = "output"
  /\ IF outputFile = ""
     THEN Goto("summary") /\ UNCHANGED <<stdout, file>>
     ELSE /\ stdout' = IF quiet THEN stdout ELSE Append(stdout, <<"saving", <<>>>>)
          /\ \E created \in BOOLEAN :
               IF created
               THEN file' = sortedEndpoints /\ Goto("summary")
               ELSE Die("OutputFileError") /\ UNCHANGED file
  /\ UNCHANGED <<unitVars, flagVars, urlsToScan, made, chanVars, poolVars, loopVars,
                 setVars, histVars>>

\* Summary that prints the summary line in quiet mode too.
SummaryLoud ==
  /\ Running /\ pc = "summary"
  /\ stdout' = Append(stdout, <<"done", <<>>>>)
  /\ exitCode' = 0
  /\ pc' = "exit"
  /\ UNCHANGED <<unitVars, flagVars, urlsToScan, made, chanVars, poolVars,
                 loopVars, setVars, stderr, file, sortedEndpoints, fatal,
                 panicked, histVars>>

\* Lines 248-251: the summary unless quiet; main returns, the process exits 0.
Summary ==
  /\ Running /\ pc = "summary"
  /\ stdout' = IF quiet THEN stdout ELSE Append(stdout, <<"done", <<>>>>)
  /\ exitCode' = 0
  /\ pc' = "exit"
  /\ UNCHANGED <<unitVars, flagVars, urlsToScan, made, chanVars, poolVars, loopVars,
                 setVars, stderr, file, sortedEndpoints, fatal, panicked,
                 histVars>>

Next ==
  \/ ReadInput
  \/ CheckInput
  \/ Setup
  \/ Spawn
  \/ SpawnDone
  \/ Enqueue
  \/ CloseJobs
  \/ \E w \in Workers : WorkerTake(w)
  \/ \E w \in Workers : WorkerFetch(w)
  \/ \E w \in Workers : WorkerSend(w)
  \/ \E w \in Workers : WorkerExit(w)
  \/ Receive
  \/ LockLink
  \/ AddLink
  \/ Wait
  \/ CloseResults
  \/ Sort
  \/ PrintQuiet
  \/ Output
  \/ Summary

Spec == Init /\ [][Next]_vars

\* The steps of main(), but for the computation of the final string, and
\* the steps of one worker goroutine, but for the fetch.
MainNext ==
  \/ ReadInput \/ CheckInput \/ Setup \/ Spawn \/ SpawnDone \/ Enqueue
  \/ CloseJobs \/ Receive \/ AddLink \/ Wait \/ CloseResults
  \/ Sort \/ PrintQuiet \/ Output \/ Summary

WorkerNext(w) == WorkerTake(w) \/ WorkerSend(w) \/ WorkerExit(w)

\* LockLink and WorkerFetch(w) can be taken: as guards these are all they
\* have, the final string and the fetch outcomes being defined for every
\* input.
LockLinkReady == Running /\ pc = "links" /\ finalEndpointsLock = ""

WorkerFetchReady(w) == Running /\ wk[w].st = "fetch"

\* The Go scheduler runs every goroutine that can take a step, and the
\* client's Timeout (line 158) makes every fetch return: weak fairness of
\* the steps of main() and of every worker.  main() and each worker are
\* sequential, so fairness of a part of their steps at a time is fairness of
\* all of them.  For LockLink and WorkerFetch(w) weak fairness is written as
\* []<>(~ENABLED <<A>>_vars) \/ []<><<A>>_vars with the enabling condition
\* spelled out, which spares TLC the evaluation of the URL resolution and of
\* the extraction under ENABLED.
FairSpec ==
  /\ Spec
  /\ WF_vars(MainNext)
  /\ []<>(~LockLinkReady) \/ []<><<LockLink>>_vars
  /\ \A w \in Workers :
       /\ WF_vars(WorkerNext(w))
       /\ []<>(~WorkerFetchReady(w)) \/ []<><<WorkerFetch(w)>>_vars

(***************************************************************************)
(* The extraction of lines 75-82 on its own: one call on one body, for     *)
(* every body made of at most MaxPieces pieces.                            *)
(***************************************************************************)
\* What the bodies are made of: the two quotes, a slash, a slash with a class
\* character, and a character that is neither quote nor class.
Pieces == {<<"\"">>, <<"'">>, <<"/">>, <<"/", "t">>, <<"<">>}

\* The bodies made of exactly n pieces.
RECURSIVE PagesOf(_)
PagesOf(n) ==
  IF n = 0 THEN {<<>>}
  ELSE {b \o piece : b \in PagesOf(n - 1), piece \in Pieces}

Pages == UNION {PagesOf(n) : n \in 0..MaxPieces}

\* main() has not started; the body is any of Pages.
ExtractInit ==
  /\ page \in Pages
  /\ returned = <<>>
  /\ targetURL = <<>> /\ urlList = "" /\ outputFile = ""
  /\ threads = 1 /\ resolve = FALSE /\ quiet = FALSE
  /\ pc = "collect"
  /\ urlsToScan = <<>>
  /\ made = FALSE
  /\ jobs = <<>> /\ jobsClosed = FALSE
  /\ results = <<>> /\ resultsClosed = FALSE
  /\ wg = 0
  /\ wk = [w \in Workers |-> Blank("unborn")]
  /\ i = 0
  /\ res = NoResult
  /\ k = 0
  /\ finalLink = <<>>
  /\ finalEndpointsLock = ""
  /\ allFoundEndpoints = {}
  /\ sortedEndpoints = <<>>
  /\ stdout = <<>> /\ stderr = <<>> /\ file = <<>>
  /\ exitCode = -1
  /\ fatal = "none"
  /\ panicked = FALSE
  /\ lines = <<>> /\ finalized = 0
  /\ fetched = <<>> /\ sent = <<>> /\ consumed = <<>>

\* Lines 75-82: matches := re.FindAllStringSubmatch(string(body), -1), and
\* the endpoints are match[2] of each match.
ExtractCall ==
  /\ returned = <<>>
  /\ returned' = <<Extract(page)>>
  /\ UNCHANGED <<page, flagVars, pc, urlsToScan, made, chanVars, poolVars,
                 loopVars, setVars, outVars, endVars, histVars>>

ExtractSpec == ExtractInit /\ [][ExtractCall]_vars

(***************************************************************************)
(* The claims.                                                             *)
(***************************************************************************)
\* The workers main() started.
Spawned == {w \in Workers : wk[w].st # "unborn"}

\* main() is past the aggregation loop of a run that built the pipeline.
Drained ==
  /\ made
  /\ \/ pc \in {"wait", "close", "sort", "print", "output", "summary"}
     \/ pc = "exit"

\* C1: every result sent carries the position and the source URL of one list
\* entry, no entry has two results, main receives the results sent in their
\* order, and once the aggregation loop is over exactly len(urlsToScan)
\* results were sent and exactly that many received.
C1_OneResultPerEntry ==
  /\ \A n \in 1..Len(sent) :
       /\ sent[n].idx \in 1..Len(urlsToScan)
       /\ sent[n].sourceURL = urlsToScan[sent[n].idx]
       /\ \A m \in 1..Len(sent) : sent[m].idx = sent[n].idx => m = n
  /\ Len(sent) <= Len(urlsToScan)
  /\ Len(consumed) <= Len(sent)
  /\ \A n \in 1..Len(consumed) : consumed[n] = sent[n]
  /\ Drained => Len(sent) = Len(urlsToScan) /\ Len(consumed) = Len(urlsToScan)

\* A finished run of two workers over a list that names one URL twice, whose
\* second entry's result arrived first.
C1_Witness ==
  /\ exitCode = 0 /\ threads = 2
  /\ urlsToScan = <<U1, U1>>
  /\ Len(consumed) = 2 /\ consumed[1].idx = 2 /\ consumed[2].idx = 1

\* Every worker main() started has returned.
AllJoined == \A w \in Spawned : wk[w].st = "done"

\* The order of main()'s steps from the end of the aggregation loop on.
Emitting == {"sort", "print", "output", "summary"}

\* C3: main() sorts, prints the sorted list, writes the file and prints the
\* summary only when every result was received and every worker has returned,
\* and it comes to each of these steps from the one before it: the end of the
\* loop (AllResultsConsumed), wg.Wait returned (WorkersJoined), the sorted
\* list (Finalized).
C3_EmitAfterJoin ==
  /\ [](/\ (made /\ (pc \in Emitting \/ pc = "close" \/ pc = "exit"))
             => (AllJoined /\ wg = 0 /\ Len(consumed) = Len(urlsToScan))
        /\ (sortedEndpoints # <<>> \/ file # <<>> \/ finalized > 0) => AllJoined)
  /\ [][/\ pc' = "close" => pc \in {"wait", "close"}
        /\ pc' = "sort" => pc \in {"close", "sort"}
        /\ pc' = "print" => pc \in {"sort", "print"}
        /\ pc' = "output" => pc \in {"print", "output"}
        /\ pc' = "summary" => pc \in {"output", "summary"}
        /\ (pc' = "exit" /\ exitCode' = 0) => pc \in {"summary", "exit"}]_vars

\* A quiet run of two workers is about to write its file: it has printed a
\* sorted list of two endpoints.
C3_Witness ==
  /\ pc = "output" /\ quiet /\ threads = 2 /\ Len(urlsToScan) = 3
  /\ Len(sortedEndpoints) >= 2
  /\ stdout = LinesOf("final", sortedEndpoints)

\* C4: the results channel is closed only when every result was received and
\* every worker has returned, so no worker holds a job or a result to send
\* while it is closed, and no send or close ever panics.
C4_CloseAfterSends ==
  /\ ~panicked
  /\ resultsClosed =>
       /\ Len(consumed) = Len(urlsToScan)
       /\ Len(sent) = Len(urlsToScan)
       /\ results = <<>>
       /\ AllJoined
       /\ \A w \in Workers : wk[w].st \notin {"fetch", "send"}

\* The channel is closed after three results from two workers went through it.
C4_Witness ==
  /\ resultsClosed /\ pc = "sort"
  /\ threads = 2 /\ Len(sent) = 3 /\ Cardinality(Spawned) = 2

\* C2: with fair scheduling, a run that built its pipeline for at least one
\* worker comes to a state where all the threads workers were started and have
\* returned, every result was received and the sorted list was produced; the
\* sorted list is never produced twice.
C2_Terminates ==
  /\ (pc = "setup" /\ threads >= 1)
       ~> (/\ Cardinality(Spawned) = threads
           /\ AllJoined
           /\ Len(consumed) = Len(urlsToScan)
           /\ finalized = 1)
  /\ [](finalized <= 1)

\* Two workers for a single URL: the run is over and both have returned, so
\* one of them never received a job.
C2_Witness ==
  /\ exitCode = 0 /\ finalized = 1
  /\ threads = 2 /\ Len(urlsToScan) = 1
  /\ Cardinality(Spawned) = 2 /\ AllJoined

\* No element occurs twice in seq.
NoRepeat(seq) == \A m, n \in 1..Len(seq) : seq[m] = seq[n] => m = n

\* How often e occurs in seq.
Occurrences(seq, e) == Cardinality({n \in 1..Len(seq) : seq[n] = e})

\* C5: no incremental line is printed twice, in non-quiet mode every string of
\* the set has exactly one incremental line and in quiet mode none is
\* printed, and the sorted list holds every string of the set exactly once.
C5_Once ==
  /\ \A m, n \in 1..Len(stdout) :
       (stdout[m][1] = "new" /\ stdout[m] = stdout[n]) => m = n
  /\ \A e \in allFoundEndpoints :
       Occurrences(stdout, <<"new", e>>) = (IF quiet THEN 0 ELSE 1)
  /\ finalized > 0 =>
       /\ NoRepeat(sortedEndpoints)
       /\ Range(sortedEndpoints) = allFoundEndpoints

\* A finished non-quiet run over a URL listed twice, whose body names the same
\* endpoint twice: the endpoint was extracted four times.
C5_Witness ==
  /\ exitCode = 0 /\ ~quiet
  /\ urlsToScan = <<U1, U1>>
  /\ \A n \in 1..Len(consumed) : consumed[n].endpoints = Extract(BodyA)
  /\ Len(consumed) = 2
  /\ Occurrences(stdout, <<"new", <<"/", "t">>>>) = 1

\* The final string the claims give for endpoint e of a result for src.
ClaimedFinal(src, e) ==
  IF ~resolve THEN e
  ELSE IF URLParse(e).ok
       THEN URLString(ResolveReference(URLParse(src), URLParse(e)))
       ELSE e

\* seq is in strictly increasing byte order.
Increasing(seq) == \A n \in 1..(Len(seq) - 1) : StrLess(seq[n], seq[n + 1])

\* Every URL of the list got the same answer each time it was fetched.
FetchIsFunction ==
  \A m, n \in 1..Len(urlsToScan) :
    urlsToScan[m] = urlsToScan[n] => fetched[m] = fetched[n]

\* The answer for URL u.
OutcomeOf(u) == fetched[CHOOSE n \in 1..Len(urlsToScan) : urlsToScan[n] = u][1]

\* The output as a function of the set of URLs, the resolve flag and the
\* answer for each URL: neither the worker count nor any order is part of it.
OutputByURL ==
  UNION {{ClaimedFinal(u, e) : e \in Range(OutcomeOf(u).endpoints)} :
           u \in {v \in Range(urlsToScan) : OutcomeOf(v).err = NoError}}

\* C6: when every URL got one answer however often it was fetched, the sorted
\* list is the increasing sequence of OutputByURL, whatever the worker count
\* and the order of arrival were.
C6_Deterministic ==
  (finalized > 0 /\ FetchIsFunction) =>
     /\ Increasing(sortedEndpoints)
     /\ Range(sortedEndpoints) = OutputByURL

\* A finished run with -r over two hosts whose results arrived against the
\* order of the list, both with endpoints.
C6_Witness ==
  /\ exitCode = 0 /\ resolve /\ threads = 2 /\ FetchIsFunction
  /\ urlsToScan = <<U2, U1>>
  /\ Len(consumed) = 2 /\ consumed[1].idx = 2
  /\ Len(consumed[1].endpoints) > 0 /\ Len(consumed[2].endpoints) > 0

\* The final strings of the endpoints of the successful results received.
OutputByResult ==
  UNION {{ClaimedFinal(consumed[n].sourceURL, e) : e \in Range(consumed[n].endpoints)} :
           n \in {m \in 1..Len(consumed) : consumed[m].err = NoError}}

\* C7: the sorted list is in increasing byte order, so without duplicates,
\* and holds exactly the final strings of the endpoints of the successful
\* results; with -r, "/t" found at "http://h/p" is there as "http://h/t".
C7_FinalOutput ==
  finalized > 0 =>
    /\ Increasing(sortedEndpoints)
    /\ Range(sortedEndpoints) = OutputByResult
    /\ (resolve /\ \E n \in 1..Len(consumed) :
                     /\ consumed[n].sourceURL = U1
                     /\ <<"/", "t">> \in Range(consumed[n].endpoints))
         => <<"h", "t", "t", "p", ":", "/", "/", "h", "/", "t">>
              \in Range(sortedEndpoints)

\* A finished run with -r in which "/p/../t" and "/t" of one body became one
\* string and "/%" stayed as it was, beside the endpoint of another host.
C7_Witness ==
  /\ exitCode = 0 /\ resolve
  /\ sortedEndpoints = << <<"/", "%">>,
                          <<"h", "t", "t", "p", ":", "/", "/", "h", "/", "t">>,
                          <<"h", "t", "t", "p", ":", "/", "/", "t", "/", "t">> >>

\* C8: a result that carries an error has no endpoints and adds nothing to
\* the set; once the loop is over every entry was fetched once and its result
\* received; the process exits with 1 only for a fatal error and with 0
\* otherwise.
C8_FailuresContained ==
  /\ ~panicked
  /\ \A n \in 1..Len(consumed) :
       consumed[n].err # NoError => consumed[n].endpoints = <<>>
  /\ allFoundEndpoints \subseteq OutputByResult
  /\ Drained =>
       \A n \in 1..Len(urlsToScan) :
         /\ Len(fetched[n]) = 1
         /\ \E m \in 1..Len(consumed) : consumed[m].idx = n
  /\ exitCode = 1 =>
       fatal \in {"InputFileMissing", "InputUnavailable", "OutputFileError"}
  /\ (pc = "exit" /\ fatal = "none") => exitCode = 0

\* A run over three URLs whose fetches all failed has exited with 0 and an
\* empty set.
C8_Witness ==
  /\ exitCode = 0 /\ Len(urlsToScan) = 3 /\ Len(consumed) = 3
  /\ \A n \in 1..3 : consumed[n].err # NoError
  /\ allFoundEndpoints = {}

\* C9 as claimed: a run that ended with a fatal error exited with 1 and had
\* built no pipeline, started no worker, queued no job and fetched nothing.
C9_FatalBeforePipeline ==
  fatal # "none" =>
    /\ exitCode = 1
    /\ ~made
    /\ Spawned = {}
    /\ sent = <<>>
    /\ \A n \in DOMAIN fetched : fetched[n] = <<>>

\* C10: once the length of the list was tested and found zero, the run has
\* ended with InputUnavailable and exit status 1, and nothing of the pipeline
\* exists: no channel, no worker, no fetch, no output.
C10_EmptyInput ==
  (pc \notin {"collect", "check"} /\ fatal # "InputFileMissing"
     /\ Len(urlsToScan) = 0) =>
    /\ fatal = "InputUnavailable" /\ exitCode = 1 /\ pc = "exit"
    /\ ~made
    /\ Spawned = {}
    /\ jobs = <<>> /\ results = <<>>
    /\ fetched = <<>> /\ sent = <<>>
    /\ stdout = <<>> /\ file = <<>>

\* The -l file held blank lines only, and the run ended with InputUnavailable.
C10_Witness ==
  /\ fatal = "InputUnavailable" /\ exitCode = 1
  /\ targetURL = <<>> /\ urlList # ""
  /\ Len(lines) = 2 /\ urlsToScan = <<>>

\* The final strings of the endpoints of the successful fetches, entry by
\* entry of the list: the quiet flag is no part of it.
OutputByEntry ==
  UNION {{ClaimedFinal(urlsToScan[n], e) : e \in Range(fetched[n][1].endpoints)} :
           n \in {m \in 1..Len(urlsToScan) :
                    fetched[m] # <<>> /\ fetched[m][1].err = NoError}}

\* C11: in quiet mode, in a run that scans a list, stdout is empty until the
\* sorted list is printed and from then on holds exactly the sorted strings of
\* the set, one line each, in increasing order; they are printed only when all
\* results were received and all workers have returned; and no per-URL error
\* is reported.
C11_QuietOutput ==
  (quiet /\ made) =>
    /\ stdout = IF pc \in {"output", "summary", "exit"}
                THEN LinesOf("final", sortedEndpoints)
                ELSE <<>>
    /\ pc \in {"output", "summary", "exit"} =>
         /\ Increasing(sortedEndpoints)
         /\ Range(sortedEndpoints) = allFoundEndpoints
         /\ AllJoined /\ wg = 0
         /\ Len(consumed) = Len(urlsToScan)
    /\ \A n \in 1..Len(stderr) : stderr[n][1] # "error"

\* A finished quiet run with -o in which one fetch failed and another found
\* several endpoints.
C11_Witness ==
  /\ quiet /\ exitCode = 0 /\ outputFile # ""
  /\ Len(stdout) >= 2
  /\ \E n \in 1..Len(consumed) : consumed[n].err # NoError

\* C12: once the file given with -o was created and written, its lines are
\* the sorted list: in increasing order, hence each once, exactly the final
\* strings of the successful fetches, a value in which the quiet flag has no
\* part; and the set holds the same strings.
C12_FileContent ==
  (outputFile # "" /\ fatal = "none" /\ pc \in {"summary", "exit"}) =>
    /\ file = sortedEndpoints
    /\ Increasing(file)
    /\ Range(file) = OutputByEntry
    /\ allFoundEndpoints = OutputByEntry

\* A finished quiet run that wrote several endpoints to the file.
C12_Witness ==
  /\ quiet /\ outputFile # "" /\ exitCode = 0
  /\ Len(file) >= 2

\* The places <<s, e>> of body where the pattern can match: a quote at s, a
\* slash, one or more class characters, a quote at e.
Places(body) ==
  {o \in (1..Len(body)) \X (1..Len(body)) :
     /\ o[1] + 3 <= o[2]
     /\ IsQuote(body[o[1]])
     /\ body[o[1] + 1] = "/"
     /\ \A j \in (o[1] + 2)..(o[2] - 1) : IsPathChar(body[j])
     /\ IsQuote(body[o[2]])}

\* The path between the quotes of occurrence o.
PathOf(body, o) == SubSeq(body, o[1] + 1, o[2] - 1)

\* C13 as claimed: every path the extraction returned stands in the body
\* between two quotes of the same kind.
C13_MatchingQuotes ==
  returned # <<>> =>
    \A n \in 1..Len(returned[1]) :
      \E o \in Places(page) :
        /\ page[o[1]] = page[o[2]]
        /\ PathOf(page, o) = returned[1][n]

\* The occurrences a scan from left to right takes: no two of them overlap,
\* and every occurrence left out starts inside one that starts before it.
Taken(body) ==
  CHOOSE P \in SUBSET Places(body) :
    /\ \A o1, o2 \in P : o1 # o2 => (o1[2] < o2[1] \/ o2[2] < o1[1])
    /\ \A o \in Places(body) \ P :
         \E o1 \in P : o1[1] < o[1] /\ o[1] <= o1[2]

\* C14: the extraction returns the paths of the occurrences taken from left
\* to right, one element for each in the order of their places, equal paths
\* included; every element starts with a slash and holds no quote.
C14_OrderedMatches ==
  returned # <<>> =>
    /\ Len(returned[1]) = Cardinality(Taken(page))
    /\ \A o \in Taken(page) :
         returned[1][Cardinality({o1 \in Taken(page) : o1[1] <= o[1]})]
           = PathOf(page, o)
    /\ \A n \in 1..Len(returned[1]) :
         /\ returned[1][n][1] = "/"
         /\ \A j \in 1..Len(returned[1][n]) : ~IsQuote(returned[1][n][j])

\* A body with the same path twice, between double and between single
\* quotes: two elements, both returned.
C14_Witness ==
  /\ page = <<"\"", "/", "t", "\"", "'", "/", "t", "'">>
  /\ returned = << << <<"/", "t">>, <<"/", "t">> >> >>

\* How many list entries main() has put into the job queue.
Enqueued ==
  IF ~made \/ pc = "spawn" THEN 0
  ELSE IF pc = "enqueue" THEN i
  ELSE Len(urlsToScan)

\* The workers that hold list entry n, taken and its result not yet sent.
Holders(n) == {w \in Workers : wk[w].st \in {"fetch", "send"} /\ wk[w].idx = n}

\* C15: a list entry that was enqueued is at exactly one place, once: in the
\* queue, with one worker, or among the results sent; it is fetched at most
\* once, and exactly once when its worker is about to send or has sent; the
\* queue and the workers hold the URL of their entry; so once the loop is over
\* every entry, equal URLs included, was fetched exactly once.
C15_FetchedOnce ==
  /\ \A n \in 1..Len(urlsToScan) :
       /\ Cardinality({j \in 1..Len(jobs) : jobs[j].idx = n})
            + Cardinality(Holders(n))
            + Cardinality({m \in 1..Len(sent) : sent[m].idx = n})
          = (IF n <= Enqueued THEN 1 ELSE 0)
       /\ made =>
            Len(fetched[n]) =
              (IF \/ \E w \in Holders(n) : wk[w].st = "send"
                  \/ \E m \in 1..Len(sent) : sent[m].idx = n
               THEN 1 ELSE 0)
  /\ \A j \in 1..Len(jobs) : jobs[j].url = urlsToScan[jobs[j].idx]
  /\ \A w \in Workers :
       wk[w].st \in {"fetch", "send"} => wk[w].url = urlsToScan[wk[w].idx]
  /\ Drained => \A n \in 1..Len(urlsToScan) : Len(fetched[n]) = 1

\* A finished run of two workers over a URL listed twice: two fetches, which
\* got different answers.
C15_Witness ==
  /\ exitCode = 0 /\ threads = 2
  /\ urlsToScan = <<U1, U1>>
  /\ Len(fetched[1]) = 1 /\ Len(fetched[2]) = 1
  /\ fetched[1] # fetched[2]

\* The workers that hold a job whose result is not yet sent.
Busy == {w \in Workers : wk[w].st \in {"fetch", "send"}}

\* The jobs taken from the queue whose result is not yet sent.
InFlight == Enqueued - Len(jobs) - Len(sent)

\* C16: the jobs in flight are as many as the workers that hold one, each
\* worker holding one at most, and never more than the workers started, which
\* are never more than threads; a worker that holds a job keeps it until it
\* sends one result that carries the job's URL, takes a job only when it
\* holds none, and returns only when it holds none.
C16_OneJobAtATime ==
  /\ [](/\ InFlight = Cardinality(Busy)
        /\ InFlight <= Cardinality(Spawned)
        /\ Cardinality(Spawned) <= (IF threads > 0 THEN threads ELSE 0))
  /\ [][\A w \in Workers :
          /\ (w \in Busy /\ wk'[w] # wk[w]) =>
               \/ /\ wk[w].st = "fetch" /\ wk'[w].st = "send"
                  /\ wk'[w].idx = wk[w].idx /\ wk'[w].url = wk[w].url
                  /\ sent' = sent
               \/ /\ wk[w].st = "send" /\ wk'[w].st = "idle"
                  /\ Len(sent') = Len(sent) + 1
                  /\ sent'[Len(sent')].idx = wk[w].idx
                  /\ sent'[Len(sent')].sourceURL = wk[w].url
          /\ (wk'[w].st = "fetch" /\ wk[w].st # "fetch") => wk[w].st = "idle"
          /\ (wk'[w].st = "done" /\ wk[w].st # "done") => wk[w].st = "idle"
       ]_vars

\* Two workers hold a job each after one result was already sent.
C16_Witness ==
  /\ threads = 2 /\ Len(urlsToScan) = 3
  /\ Len(sent) = 1 /\ InFlight = 2 /\ Cardinality(Busy) = 2

\* C17: every step keeps every element of the set of endpoints and adds at
\* most one; once the sorted list is produced no step changes the set, and
\* the set stays what the list holds.
C17_SetOnlyGrows ==
  /\ [](finalized > 0 => Range(sortedEndpoints) = allFoundEndpoints)
  /\ [][/\ allFoundEndpoints \subseteq allFoundEndpoints'
        /\ Cardinality(allFoundEndpoints') <= Cardinality(allFoundEndpoints) + 1
        /\ finalized > 0 => allFoundEndpoints' = allFoundEndpoints
       ]_vars

\* A run that ended with a set that grew twice.
C17_Witness ==
  /\ pc = "exit" /\ exitCode = 0 /\ finalized = 1
  /\ Cardinality(allFoundEndpoints) = 2

\* C18: the mutex is free or held by main, held exactly while main is
\* between Lock() and Unlock(), and free once the sorted list is produced; the
\* set changes, and an incremental line is printed, only in the step of main
\* that ends that section, which tests, inserts and prints the one string
\* computed before Lock(); while the mutex stays held nothing changes the set
\* or the output; no step of a worker changes the set or the mutex.
C18_SetUnderLock ==
  /\ [](/\ finalEndpointsLock \in {"", "main"}
        /\ finalEndpointsLock = "main" <=> pc = "locked"
        /\ finalized > 0 => finalEndpointsLock = "")
  /\ [][/\ (\/ allFoundEndpoints' # allFoundEndpoints
            \/ /\ stdout' # stdout /\ Len(stdout') > 0
               /\ stdout'[Len(stdout')][1] = "new") =>
             /\ pc = "locked" /\ finalEndpointsLock = "main"
             /\ finalEndpointsLock' = "" /\ wk' = wk
             /\ finalLink \notin allFoundEndpoints
             /\ allFoundEndpoints' = allFoundEndpoints \cup {finalLink}
             /\ stdout' = IF quiet THEN stdout
                          ELSE Append(stdout, <<"new", finalLink>>)
        /\ (finalEndpointsLock = "main" /\ finalEndpointsLock' = "main") =>
             UNCHANGED <<allFoundEndpoints, stdout, finalLink>>
        /\ wk' # wk => UNCHANGED setVars
       ]_vars

\* Main holds the mutex with a string not yet in the set while a worker is
\* about to send.
C18_Witness ==
  /\ pc = "locked" /\ finalEndpointsLock = "main"
  /\ allFoundEndpoints # {} /\ finalLink \notin allFoundEndpoints
  /\ \E w \in Workers : wk[w].st = "send"

\* The start banner, alone on stdout.
BannerOnly == << <<"banner", <<>>>> >>

\* C19: with threads <= 0, once the channels are made no worker exists, no
\* result is sent or received, the results channel stays empty and open, the
\* set stays empty, nothing is finalized or written to the file, the process
\* does not exit, and stdout holds nothing but the start banner, which is
\* there, unless -q is set, from the moment main reaches its first receive;
\* under fair scheduling main does come to that receive with every URL in the
\* closed queue, and stays there for ever.
C19_NoWorkers ==
  /\ []((made /\ threads <= 0) =>
          /\ Spawned = {} /\ wg = 0
          /\ sent = <<>> /\ consumed = <<>>
          /\ results = <<>> /\ ~resultsClosed
          /\ allFoundEndpoints = {} /\ finalized = 0 /\ file = <<>>
          /\ Running /\ pc \in {"spawn", "enqueue", "drain"}
          /\ Len(jobs) = Enqueued
          /\ stdout = IF pc = "drain" /\ ~quiet THEN BannerOnly ELSE <<>>)
  /\ (threads <= 0 /\ pc = "setup")
       ~> [](/\ pc = "drain" /\ jobsClosed
             /\ Len(jobs) = Len(urlsToScan)
             /\ results = <<>> /\ ~resultsClosed)

\* The statement with no output at all: as C19_NoWorkers, but stdout empty
\* in every state.
C19_NoOutput ==
  (made /\ threads <= 0) =>
    /\ Spawned = {} /\ wg = 0
    /\ sent = <<>> /\ consumed = <<>>
    /\ results = <<>> /\ ~resultsClosed
    /\ allFoundEndpoints = {} /\ finalized = 0 /\ file = <<>>
    /\ Running /\ pc \in {"spawn", "enqueue", "drain"}
    /\ stdout = <<>>

\* Main at its first receive with no worker, two URLs in the closed queue
\* and the banner printed.
C19_Witness ==
  /\ threads = 0 /\ ~quiet /\ pc = "drain"
  /\ jobsClosed /\ Len(jobs) = 2 /\ Len(urlsToScan) = 2
  /\ results = <<>> /\ ~resultsClosed
  /\ stdout = BannerOnly

\* C20: neither channel holds more than its capacity, which is no more than
\* len(urlsToScan);
\* the queue holds the entries enqueued and not yet taken, the results
\* channel the results sent and not yet received; whenever main is about to
\* enqueue, the queue has a free slot, and whenever a worker is about to send,
\* the results channel has a free slot and is open.
C20_SendsNeverBlock ==
  made =>
    /\ Len(jobs) <= Capacity /\ Len(results) <= Capacity
    /\ Capacity <= Len(urlsToScan)
    /\ Len(jobs) = Enqueued - Cardinality(Busy) - Len(sent)
    /\ Len(consumed) <= Len(sent)
    /\ Len(results) = Len(sent) - Len(consumed)
    /\ (Running /\ pc = "enqueue" /\ i < Len(urlsToScan)) => Len(jobs) < Capacity
    /\ \A w \in Workers :
         wk[w].st = "send" => Len(results) < Capacity /\ ~resultsClosed

\* The results channel is full: it holds a result for each of three URLs
\* while main has received none.
C20_Witness ==
  /\ Len(urlsToScan) = 3 /\ Len(results) = 3 /\ consumed = <<>>
  /\ Capacity = 3

====
